---- MODULE Spec2Model ----
(***************************************************************************)
(* A model of the conduit composition algebra of fluxus.core:              *)
(*   _chained_base_.py            chained composites and graph queries     *)
(*   producer/_producer_base.py   BaseProducer, SerialProducer,            *)
(*                                ConcurrentProducer                       *)
(*   transformer/_transformer_base.py  BaseTransformer, SerialTransformer, *)
(*                                ConcurrentTransformer                    *)
(*                                                                         *)
(* Conduits are objects: the model keeps them in a heap, a sequence of     *)
(* node records whose index is the object's identity.  The composition    *)
(* operators >> and & append a node that refers to its operands.           *)
(***************************************************************************)
EXTENDS Integers, Sequences, FiniteSets, Bags, TLC

\* Bounds of the model.
MaxComposites == 2
MaxIngoing == 1
MaxGroups == 1
MaxMembers == 2
MaxLen == 2

\* Type tags form a chain 1 <: 2 <: ... <: NumTypes (e.g. bool <: int <: object).
NumTypes == 3

VARIABLES
    heap,      \* the conduits constructed so far
    lastOp,    \* outcome of the last composition operator call
    pc,        \* "idle", "walking" (a get_final_conduits generator is live), "done"
    query,     \* which query the slot holds: "none", "final", "connections", "isolated",
               \* "chained"
    root,      \* the conduit the query was called on
    ingoing,   \* the caller's ingoing collection (get_connections)
    stack,     \* frames of the live get_final_conduits generators
    out,       \* what the query has yielded so far
    visits,    \* the nodes get_final_conduits was called on in this walk, in call order
    steps,     \* generator steps taken in this walk
    pass,      \* 1 for the first call, 2 for its repetition
    firstOut,  \* the first call's result, kept for the repetition
    job,       \* the execution call under way: "produce", "aproduce", "process", ...
    stages,    \* the members of the group (or the one stage) the call is made on
    input,     \* the items of the input iterator handed to process()
    itpos,     \* how many items of the input iterator have been consumed
    products,  \* SimpleProducer.products
    prods,     \* what iter_concurrent_producers() yields, in order
    bi,        \* ConcurrentProducer.produce: index of the producer being drained
    cur,       \* how many items the current producer has pulled from its upstream
    pending,   \* what the current transform() call has still to yield
    eout,      \* the items the call has yielded so far, in order
    started,   \* aproduce: the members whose sequences async_flatten holds, in order
    apos,      \* aproduce: per sequence held, the number of items it has yielded
    delivered, \* aproduce: the bag of items delivered so far
    epc        \* "none", "init", "run", "done"

execVars ==
    <<job, stages, input, itpos, products, prods, bi, cur, pending, eout, started, apos,
      delivered, epc>>

vars ==
    <<heap, lastOp, pc, query, root, ingoing, stack, out, visits, steps, pass, firstOut,
      execVars>>

graphVars == <<pc, query, root, ingoing, stack, out, visits, steps, pass, firstOut>>

(***************************************************************************)
(* Classes                                                                 *)
(***************************************************************************)
SerialTransformerClasses == {"SerialTransformer", "_ChainedTransformer"}

BaseTransformerClasses ==
    SerialTransformerClasses \cup {"SimpleConcurrentTransformer", "_ChainedConcurrentTransformer"}

SerialProducerClasses == {"SerialProducer", "_ChainedProducer"}

BaseProducerClasses ==
    SerialProducerClasses
        \cup {"SimpleConcurrentProducer", "_ChainedConcurrentTransformedProducer",
              "_ChainedConcurrentProducer"}

ChainedClasses ==
    {"_ChainedTransformer", "_ChainedConcurrentTransformer", "_ChainedProducer",
     "_ChainedConcurrentTransformedProducer", "_ChainedConcurrentProducer"}

GroupClasses == {"SimpleConcurrentProducer", "SimpleConcurrentTransformer"}

Node(cls, source, processor, members, input_type, product_type) ==
    [cls |-> cls, source |-> source, processor |-> processor, members |-> members,
     input_type |-> input_type, product_type |-> product_type]

Leaf(cls, input_type, product_type) == Node(cls, 0, 0, <<>>, input_type, product_type)

ThePassthrough == Leaf("Passthrough", 0, 0)

IsPassthrough(h, n) == h[n].cls = "Passthrough"

IsSerialTransformer(h, n) == h[n].cls \in SerialTransformerClasses

IsBaseTransformer(h, n) == h[n].cls \in BaseTransformerClasses

IsSerialProducer(h, n) == h[n].cls \in SerialProducerClasses

IsBaseProducer(h, n) == h[n].cls \in BaseProducerClasses

is_chained(h, n) == h[n].cls \in ChainedClasses

IsGroup(h, n) == h[n].cls \in GroupClasses

IsSerialLeaf(h, n) == h[n].cls \in {"SerialProducer", "SerialTransformer"}

(***************************************************************************)
(* The type lattice (an external collaborator): a chain of type tags.      *)
(***************************************************************************)
issubclass_generic(a, b) == a <= b

get_common_generic_base(a, b) == IF a >= b THEN a ELSE b

get_common_generic_subclass(a, b) == IF a <= b THEN a ELSE b

(***************************************************************************)
(* Composition operators.  A call returns a new conduit, raises the        *)
(* TypeError of _validate_concurrent_passthrough, or returns               *)
(* NotImplemented.                                                         *)
(***************************************************************************)
Return(node) == [kind |-> "return", node |-> node]

Raise == [kind |-> "raise", node |-> ThePassthrough]

NotImplemented == [kind |-> "NotImplemented", node |-> ThePassthrough]

\* The subtype test with its arguments the other way round.
validate_concurrent_passthrough_Reversed(h, conduit) ==
    \/ IsPassthrough(h, conduit)
    \/ issubclass_generic(h[conduit].product_type, h[conduit].input_type)

\* _validate_concurrent_passthrough: TRUE iff it returns without raising.
validate_concurrent_passthrough(h, conduit) ==
    \/ IsPassthrough(h, conduit)
    \/ issubclass_generic(h[conduit].input_type, h[conduit].product_type)

BaseTransformer__and__(h, self, other) ==
    IF IsPassthrough(h, other)
    THEN IF ~validate_concurrent_passthrough(h, self)
         THEN Raise
         ELSE Return(Node("SimpleConcurrentTransformer", 0, 0, <<self, other>>,
                          h[self].input_type, h[self].product_type))
    ELSE IF ~IsBaseTransformer(h, other)
    THEN NotImplemented
    ELSE Return(Node("SimpleConcurrentTransformer", 0, 0, <<self, other>>,
                     get_common_generic_subclass(h[self].input_type, h[other].input_type),
                     get_common_generic_base(h[self].product_type, h[other].product_type)))

\* The reflected operator builds the group as the forward one does, self first.
BaseTransformer__rand__SelfFirst(h, self, other) ==
    IF IsPassthrough(h, other)
    THEN IF ~validate_concurrent_passthrough(h, self)
         THEN Raise
         ELSE Return(Node("SimpleConcurrentTransformer", 0, 0, <<self, other>>,
                          h[self].input_type, h[self].product_type))
    ELSE NotImplemented

BaseTransformer__rand__(h, self, other) ==
    IF IsPassthrough(h, other)
    THEN IF ~validate_concurrent_passthrough(h, self)
         THEN Raise
         ELSE Return(Node("SimpleConcurrentTransformer", 0, 0, <<other, self>>,
                          h[self].input_type, h[self].product_type))
    ELSE NotImplemented

BaseProducer__and__(h, self, other) ==
    IF IsBaseProducer(h, other)
    THEN Return(Node("SimpleConcurrentProducer", 0, 0, <<self, other>>, 0,
                     get_common_generic_base(h[self].product_type, h[other].product_type)))
    ELSE NotImplemented

\* A chained composite of source and processor; its type tags are those of its ends.
Chained(h, cls, source, processor) ==
    Node(cls, source, processor, <<>>, h[source].input_type, h[processor].product_type)

BaseTransformer__rshift__(h, self, other) ==
    IF IsBaseTransformer(h, other)
    THEN Return(Chained(h, "_ChainedConcurrentTransformer", self, other))
    ELSE NotImplemented

SerialTransformer__rshift__(h, self, other) ==
    IF IsSerialTransformer(h, other)
    THEN Return(Chained(h, "_ChainedTransformer", self, other))
    ELSE BaseTransformer__rshift__(h, self, other)

\* No Consumer is modelled: both producer __rshift__ methods return NotImplemented.
BaseProducer__rshift__(h, self, other) == NotImplemented

SerialProducer__rshift__(h, self, other) == NotImplemented

BaseTransformer__rrshift__(h, self, other) ==
    IF IsSerialProducer(h, other)
    THEN Return(Chained(h, "_ChainedConcurrentTransformedProducer", other, self))
    ELSE IF IsBaseProducer(h, other)
    THEN Return(Chained(h, "_ChainedConcurrentProducer", other, self))
    ELSE NotImplemented

SerialTransformer__rrshift__(h, self, other) ==
    IF IsSerialProducer(h, other)
    THEN Return(Chained(h, "_ChainedProducer", other, self))
    ELSE BaseTransformer__rrshift__(h, self, other)

\* Python's binary operator protocol for a & b: a.__and__(b), then b.__rand__(a).
AndOp(h, a, b) ==
    LET fwd == IF IsBaseTransformer(h, a) THEN BaseTransformer__and__(h, a, b)
               ELSE IF IsBaseProducer(h, a) THEN BaseProducer__and__(h, a, b)
               ELSE NotImplemented
    IN  IF fwd.kind # "NotImplemented" THEN fwd
        ELSE IF IsBaseTransformer(h, b) THEN BaseTransformer__rand__(h, b, a)
        ELSE NotImplemented

\* Python's binary operator protocol for a >> b: a.__rshift__(b), then b.__rrshift__(a).
RshiftOp(h, a, b) ==
    LET fwd == IF IsSerialTransformer(h, a) THEN SerialTransformer__rshift__(h, a, b)
               ELSE IF IsBaseTransformer(h, a) THEN BaseTransformer__rshift__(h, a, b)
               ELSE IF IsSerialProducer(h, a) THEN SerialProducer__rshift__(h, a, b)
               ELSE IF IsBaseProducer(h, a) THEN BaseProducer__rshift__(h, a, b)
               ELSE NotImplemented
    IN  IF fwd.kind # "NotImplemented" THEN fwd
        ELSE IF IsSerialTransformer(h, b) THEN SerialTransformer__rrshift__(h, b, a)
        ELSE IF IsBaseTransformer(h, b) THEN BaseTransformer__rrshift__(h, b, a)
        ELSE NotImplemented

Composites(h) == {n \in DOMAIN h : is_chained(h, n) \/ IsGroup(h, n)}

NoOp == [op |-> "none", a |-> 0, b |-> 0, raised |-> FALSE, result |-> 0]

\* One call of a binary composition operator on two constructed conduits.
Compose(op, a, b, limit) ==
    LET r == IF op = "&" THEN AndOp(heap, a, b) ELSE RshiftOp(heap, a, b)
    IN  /\ r.kind # "NotImplemented"
        /\ IF r.kind = "raise"
           THEN /\ heap' = heap
                /\ lastOp' = [op |-> op, a |-> a, b |-> b, raised |-> TRUE, result |-> 0]
           ELSE /\ Cardinality(Composites(heap)) < limit
                /\ heap' = Append(heap, r.node)
                /\ lastOp' = [op |-> op, a |-> a, b |-> b, raised |-> FALSE,
                              result |-> Len(heap) + 1]

And ==
    /\ \E a, b \in DOMAIN heap : Compose("&", a, b, MaxComposites)
    /\ UNCHANGED <<graphVars, execVars>>

Rshift ==
    /\ \E a, b \in DOMAIN heap : Compose(">>", a, b, MaxComposites)
    /\ UNCHANGED <<graphVars, execVars>>

(***************************************************************************)
(* Graph queries.                                                          *)
(***************************************************************************)
RECURSIVE has_passthrough(_, _)
\* Conduit._has_passthrough: the conduit re-exposes its raw upstream as one of its
\* outputs.  A Passthrough does, a group does if a member does, a chain does if both
\* its source and its processor do, a leaf does not.
has_passthrough(h, n) ==
    IF IsPassthrough(h, n) THEN TRUE
    ELSE IF IsGroup(h, n)
    THEN \E i \in DOMAIN h[n].members : has_passthrough(h, h[n].members[i])
    ELSE IF is_chained(h, n)
    THEN has_passthrough(h, h[n].source) /\ has_passthrough(h, h[n].processor)
    ELSE FALSE

\* The condition tested on the source instead of the processor.
ChainYieldsSourceFinals_OnSource(h, n) == has_passthrough(h, h[n].source)

\* _ChainedConduit.get_final_conduits, the condition of its if statement.
ChainYieldsSourceFinals(h, n) == has_passthrough(h, h[n].processor)

RECURSIVE get_final_conduits(_, _)
RECURSIVE GroupFinalConduits(_, _, _)
\* The list a full drain of n.get_final_conduits() gives.
get_final_conduits(h, n) ==
    IF is_chained(h, n)
    THEN (IF ChainYieldsSourceFinals(h, n) THEN get_final_conduits(h, h[n].source) ELSE <<>>)
             \o get_final_conduits(h, h[n].processor)
    ELSE IF IsGroup(h, n) THEN GroupFinalConduits(h, h[n].members, 1)
    ELSE IF IsPassthrough(h, n) THEN <<>>
    ELSE <<n>>

GroupFinalConduits(h, members, i) ==
    IF i > Len(members) THEN <<>>
    ELSE get_final_conduits(h, members[i]) \o GroupFinalConduits(h, members, i + 1)

\* The caller's ingoing conduits added whether or not the source has a passthrough.
ProcessorIngoing_AlwaysExtended(h, n, ing) == get_final_conduits(h, h[n].source) \o ing

\* _ChainedConduit.get_connections: the ingoing conduits handed to the processor.
ProcessorIngoing(h, n, ing) ==
    get_final_conduits(h, h[n].source)
        \o (IF has_passthrough(h, h[n].source) THEN ing ELSE <<>>)

\* The processor's ingoing conduits built by extending the caller's own collection.
IngoingAfterCall_Aliased(h, n, ing) ==
    IF is_chained(h, n) THEN ing \o get_final_conduits(h, h[n].source) ELSE ing

\* _ChainedConduit.get_connections: the caller's ingoing collection once the call is
\* over.  processor_ingoing is a list of its own, so the caller's is as it was.
IngoingAfterCall(h, n, ing) == ing

RECURSIVE get_connections(_, _, _)
RECURSIVE GroupConnections(_, _, _, _)
RECURSIVE LeafConnections(_, _, _)
\* The list a full drain of n.get_connections(ingoing=ing) gives.
get_connections(h, n, ing) ==
    IF is_chained(h, n)
    THEN get_connections(h, h[n].source, ing)
             \o get_connections(h, h[n].processor, ProcessorIngoing(h, n, ing))
    ELSE IF IsGroup(h, n) THEN GroupConnections(h, h[n].members, 1, ing)
    ELSE IF IsPassthrough(h, n) THEN <<>>
    ELSE LeafConnections(n, ing, 1)

GroupConnections(h, members, i, ing) ==
    IF i > Len(members) THEN <<>>
    ELSE get_connections(h, members[i], ing) \o GroupConnections(h, members, i + 1, ing)

LeafConnections(n, ing, i) ==
    IF i > Len(ing) THEN <<>>
    ELSE <<(<<ing[i], n>>)>> \o LeafConnections(n, ing, i + 1)

\* _ChainedConduit.get_isolated_conduits: chained conduits are never isolated.
get_isolated_conduits(h, n) == <<>>

(***************************************************************************)
(* get_final_conduits as the generator it is: one frame per live           *)
(* generator, the innermost last.  A frame's pc counts the sub-generators  *)
(* it has already delegated to.                                            *)
(***************************************************************************)
Frame(n, p) == [node |-> n, pc |-> p]

Push(stk, n) == Append(stk, Frame(n, 0))

Pop(stk) == SubSeq(stk, 1, Len(stk) - 1)

SetPc(stk, p) == [stk EXCEPT ![Len(stk)].pc = p]

\* The second delegation goes to the source again instead of the processor.
ChainFinalStep_SourceTwice(h, f) ==
    LET n == f.node IN
    IF f.pc = 0 /\ ChainYieldsSourceFinals(h, n)
    THEN [do |-> "call", node |-> h[n].source, pc |-> 1]
    ELSE IF f.pc < 2
    THEN [do |-> "call", node |-> h[n].source, pc |-> 2]
    ELSE [do |-> "return", node |-> n, pc |-> f.pc]

\* _ChainedConduit.get_final_conduits: delegate to the source if the processor has a
\* passthrough, then delegate to the processor, then return.
ChainFinalStep(h, f) ==
    LET n == f.node IN
    IF f.pc = 0 /\ ChainYieldsSourceFinals(h, n)
    THEN [do |-> "call", node |-> h[n].source, pc |-> 1]
    ELSE IF f.pc < 2
    THEN [do |-> "call", node |-> h[n].processor, pc |-> 2]
    ELSE [do |-> "return", node |-> n, pc |-> f.pc]

\* What the innermost generator does next: delegate to a child ("call"), yield a
\* conduit ("yield"), or finish ("return").
FinalStep(h, f) ==
    LET n == f.node IN
    IF is_chained(h, n) THEN ChainFinalStep(h, f)
    ELSE IF IsGroup(h, n)
    THEN IF f.pc < Len(h[n].members)
         THEN [do |-> "call", node |-> h[n].members[f.pc + 1], pc |-> f.pc + 1]
         ELSE [do |-> "return", node |-> n, pc |-> f.pc]
    ELSE IF IsPassthrough(h, n)
    THEN [do |-> "return", node |-> n, pc |-> f.pc]
    ELSE IF f.pc = 0
    THEN [do |-> "yield", node |-> n, pc |-> 1]
    ELSE [do |-> "return", node |-> n, pc |-> f.pc]

Idle ==
    /\ pc = "idle"
    /\ query = "none"

\* All conduits a caller can hold: everything constructed but the Passthrough marker.
Conduits(h) == {n \in DOMAIN h : ~IsPassthrough(h, n)}

\* list(c.get_final_conduits()) is started: the generator object is created.
StartFinal ==
    /\ Idle
    /\ \E n \in Conduits(heap) :
         /\ root' = n
         /\ stack' = <<Frame(n, 0)>>
         /\ visits' = <<n>>
    /\ pc' = "walking"
    /\ query' = "final"
    /\ out' = <<>>
    /\ steps' = 0
    /\ pass' = 1
    /\ UNCHANGED <<heap, lastOp, ingoing, firstOut>>
    /\ UNCHANGED execVars

\* The consumer pulls once more: the innermost generator runs to its next
\* delegation, yield or return.
WalkStep ==
    /\ pc = "walking"
    /\ stack # <<>>
    /\ LET s == FinalStep(heap, stack[Len(stack)]) IN
         /\ stack' = IF s.do = "call" THEN Push(SetPc(stack, s.pc), s.node)
                     ELSE IF s.do = "yield" THEN SetPc(stack, s.pc)
                     ELSE Pop(stack)
         /\ out' = IF s.do = "yield" THEN Append(out, s.node) ELSE out
         /\ visits' = IF s.do = "call" THEN Append(visits, s.node) ELSE visits
         /\ pc' = IF s.do = "return" /\ Len(stack) = 1 THEN "done" ELSE "walking"
    /\ steps' = steps + 1
    /\ UNCHANGED <<heap, lastOp, query, root, ingoing, pass, firstOut>>
    /\ UNCHANGED execVars

\* Caller-supplied ingoing collections: serial leaf conduits, without repetition.
Ingoings(h) ==
    {ing \in UNION {[1..k -> {n \in DOMAIN h : IsSerialLeaf(h, n)}] : k \in 0..MaxIngoing} :
        \A i, j \in DOMAIN ing : i # j => ing[i] # ing[j]}

\* list(c.get_connections(ingoing=ing)), drained in one go.
CallConnections ==
    /\ Idle
    /\ \E n \in Conduits(heap), ing \in Ingoings(heap) :
         /\ root' = n
         /\ ingoing' = IngoingAfterCall(heap, n, ing)
         /\ out' = get_connections(heap, n, ing)
    /\ pc' = "done"
    /\ query' = "connections"
    /\ pass' = 1
    /\ UNCHANGED <<heap, lastOp, stack, visits, steps, firstOut>>
    /\ UNCHANGED execVars

\* list(c.get_isolated_conduits()) on a chained composite c.
CallIsolated ==
    /\ Idle
    /\ \E n \in Conduits(heap) :
         /\ is_chained(heap, n)
         /\ root' = n
         /\ out' = get_isolated_conduits(heap, n)
    /\ pc' = "done"
    /\ query' = "isolated"
    /\ pass' = 1
    /\ UNCHANGED <<heap, lastOp, ingoing, stack, visits, steps, firstOut>>
    /\ UNCHANGED execVars

\* The same query is made a second time, on the same conduit with the same ingoing.
Repeat ==
    /\ pc = "done"
    /\ pass = 1
    /\ pass' = 2
    /\ firstOut' = out
    /\ IF query = "final"
       THEN /\ pc' = "walking"
            /\ stack' = <<Frame(root, 0)>>
            /\ visits' = <<root>>
            /\ out' = <<>>
            /\ steps' = 0
            /\ UNCHANGED ingoing
       ELSE /\ pc' = "done"
            /\ out' = IF query = "connections"
                      THEN get_connections(heap, root, ingoing)
                      ELSE get_isolated_conduits(heap, root)
            /\ ingoing' = IF query = "connections"
                          THEN IngoingAfterCall(heap, root, ingoing)
                          ELSE ingoing
            /\ UNCHANGED <<stack, visits, steps>>
    /\ UNCHANGED <<heap, lastOp, query, root>>
    /\ UNCHANGED execVars

\* The caller drops the result.
Release ==
    /\ pc = "done"
    /\ pc' = "idle"
    /\ query' = "none"
    /\ root' = 0
    /\ ingoing' = <<>>
    /\ stack' = <<>>
    /\ out' = <<>>
    /\ visits' = <<>>
    /\ steps' = 0
    /\ pass' = 1
    /\ firstOut' = <<>>
    /\ UNCHANGED <<heap, lastOp>>
    /\ UNCHANGED execVars

\* No execution call is made in this specification.
NoExecution ==
    /\ job = "none"
    /\ stages = <<>>
    /\ input = <<>>
    /\ itpos = 0
    /\ products = <<>>
    /\ prods = <<>>
    /\ bi = 0
    /\ cur = 0
    /\ pending = <<>>
    /\ eout = <<>>
    /\ started = <<>>
    /\ apos = <<>>
    /\ delivered = EmptyBag
    /\ epc = "none"

InitGraphVars ==
    /\ pc = "idle"
    /\ query = "none"
    /\ root = 0
    /\ ingoing = <<>>
    /\ stack = <<>>
    /\ out = <<>>
    /\ visits = <<>>
    /\ steps = 0
    /\ pass = 1
    /\ firstOut = <<>>

\* A serial producer of type 1, a serial transformer from type 1 to type 2, and the
\* Passthrough marker have been constructed.
Init ==
    /\ heap = <<Leaf("SerialProducer", 0, 1), Leaf("SerialTransformer", 1, 2), ThePassthrough>>
    /\ lastOp = NoOp
    /\ InitGraphVars
    /\ NoExecution

Next ==
    \/ And
    \/ Rshift
    \/ StartFinal
    \/ WalkStep
    \/ CallConnections
    \/ CallIsolated
    \/ Repeat
    \/ Release

Spec == Init /\ [][Next]_vars

(***************************************************************************)
(* Properties of the graph queries                                         *)
(***************************************************************************)
FinalDone ==
    /\ query = "final"
    /\ pc = "done"

ConnectionsDone ==
    /\ query = "connections"
    /\ pc = "done"

\* chain(S, group(T, Passthrough)) with single-leaf S and T.
IsLeafChainWithPassthroughGroup(h, c) ==
    /\ is_chained(h, c)
    /\ IsSerialLeaf(h, h[c].source)
    /\ IsGroup(h, h[c].processor)
    /\ Len(h[h[c].processor].members) = 2
    /\ IsSerialLeaf(h, h[h[c].processor].members[1])
    /\ IsPassthrough(h, h[h[c].processor].members[2])

\* C1: a drained get_final_conduits() of a chained composite chain(S, P) is S's final
\* conduits, present iff P has a passthrough, followed by P's final conduits in P's
\* order; for chain(S, group(T, Passthrough)) with leaves S and T it is exactly
\* S followed by T.
C1_ChainFinalConduits ==
    (FinalDone /\ is_chained(heap, root)) =>
        /\ out = (IF has_passthrough(heap, heap[root].processor)
                  THEN get_final_conduits(heap, heap[root].source)
                  ELSE <<>>)
                 \o get_final_conduits(heap, heap[root].processor)
        /\ IsLeafChainWithPassthroughGroup(heap, root) =>
               out = <<heap[root].source, heap[heap[root].processor].members[1]>>

C1_Witness ==
    /\ FinalDone
    /\ IsLeafChainWithPassthroughGroup(heap, root)
    /\ Len(out) = 2

\* C2: a drained get_connections(ingoing) of a chained composite chain(S, P) is all of
\* S.get_connections(ingoing) followed by all of P.get_connections(processor_ingoing),
\* where processor_ingoing is S's final conduits, extended by the caller's ingoing
\* conduits iff S has a passthrough.
C2_ChainConnections ==
    (ConnectionsDone /\ pass = 1 /\ is_chained(heap, root)) =>
        LET S == heap[root].source
            P == heap[root].processor
            processor_ingoing ==
                IF has_passthrough(heap, S)
                THEN get_final_conduits(heap, S) \o ingoing
                ELSE get_final_conduits(heap, S)
        IN  out = get_connections(heap, S, ingoing)
                      \o get_connections(heap, P, processor_ingoing)

\* A chain whose source has a passthrough, queried with a non-empty ingoing collection
\* that reaches the processor.
C2_Witness ==
    /\ ConnectionsDone
    /\ pass = 1
    /\ is_chained(heap, root)
    /\ has_passthrough(heap, heap[root].source)
    /\ ingoing # <<>>
    /\ \E i \in DOMAIN out : out[i][1] = ingoing[1] /\ out[i][2] = heap[root].processor

\* C8: a query repeated on the same conduit with the same ingoing collection gives the
\* result of the first call, and no step of any query changes a constructed conduit or
\* the caller's ingoing collection.
C8_IdempotentIntrospection ==
    /\ []((pc = "done" /\ pass = 2) => out = firstOut)
    /\ [][/\ \A n \in DOMAIN heap : n \in DOMAIN heap' /\ heap'[n] = heap[n]
          /\ graphVars' # graphVars => heap' = heap
          /\ (pass = 1 /\ pass' = 2) => ingoing' = ingoing]_vars

\* A chained composite has been queried twice for its connections with a non-empty
\* ingoing collection.
C8_Witness ==
    /\ ConnectionsDone
    /\ pass = 2
    /\ is_chained(heap, root)
    /\ ingoing # <<>>
    /\ out # <<>>

RECURSIVE Multiplicity(_, _, _)
RECURSIVE MembersMultiplicity(_, _, _, _)
\* The number of occurrences of conduit n in the composition tree rooted at r.
Multiplicity(h, r, n) ==
    (IF r = n THEN 1 ELSE 0)
        + (IF is_chained(h, r)
           THEN Multiplicity(h, h[r].source, n) + Multiplicity(h, h[r].processor, n)
           ELSE MembersMultiplicity(h, h[r].members, 1, n))

MembersMultiplicity(h, members, i, n) ==
    IF i > Len(members) THEN 0
    ELSE Multiplicity(h, members[i], n) + MembersMultiplicity(h, members, i + 1, n)

RECURSIVE TreeSize(_, _)
RECURSIVE MembersSize(_, _, _)
\* The number of nodes, with multiplicity, of the composition tree rooted at r.
TreeSize(h, r) ==
    1 + (IF is_chained(h, r) THEN TreeSize(h, h[r].source) + TreeSize(h, h[r].processor)
         ELSE MembersSize(h, h[r].members, 1))

MembersSize(h, members, i) ==
    IF i > Len(members) THEN 0
    ELSE TreeSize(h, members[i]) + MembersSize(h, members, i + 1)

Count(seq, x) == Cardinality({i \in DOMAIN seq : seq[i] = x})

\* C10: a walk of get_final_conduits over a constructed composite can always go on
\* until it is done, is done within three steps per node of the composition tree, and
\* calls get_final_conduits on no node more often than the node occurs in the tree.
C10_FinalWalkTerminates ==
    query = "final" =>
        /\ \A n \in DOMAIN heap : Count(visits, n) <= Multiplicity(heap, root, n)
        /\ steps <= 3 * TreeSize(heap, root)
        /\ pc = "walking" => ENABLED WalkStep
        /\ pc = "done" => stack = <<>>

\* A walk over a chain whose processor is a group with a passthrough has ended, having
\* gone into the source as well.
C10_Witness ==
    /\ FinalDone
    /\ is_chained(heap, root)
    /\ IsGroup(heap, heap[root].processor)
    /\ Count(visits, heap[root].source) >= 1
    /\ Len(visits) >= 4

(***************************************************************************)
(* Construction over all type tags: two leaf transformers of any input and *)
(* product type and the Passthrough marker, grouped with &.                *)
(***************************************************************************)
Types == 1..NumTypes

InitType ==
    /\ \E i1, o1, i2, o2 \in Types :
         heap = <<Leaf("SerialTransformer", i1, o1), Leaf("SerialTransformer", i2, o2),
                  ThePassthrough>>
    /\ lastOp = NoOp
    /\ InitGraphVars
    /\ NoExecution

\* a & b on the typed leaves and the groups made of them.
AndTyped ==
    /\ \E a, b \in DOMAIN heap : Compose("&", a, b, MaxGroups)
    /\ UNCHANGED <<graphVars, execVars>>

NextType == AndTyped

SpecType == InitType /\ [][NextType]_vars

\* The last operator call grouped a transformer with a Passthrough.
LastOpGroupsWithPassthrough ==
    /\ lastOp.op = "&"
    /\ IsPassthrough(heap, lastOp.a) # IsPassthrough(heap, lastOp.b)

LastOpTransformer == IF IsPassthrough(heap, lastOp.a) THEN lastOp.b ELSE lastOp.a

\* C6: T & Passthrough and Passthrough & T raise the TypeError, and construct nothing,
\* when T.input_type is not a subtype of T.product_type; otherwise they return the
\* group of the two operands.  No group with a Passthrough member and such a T exists.
C6_PassthroughTypeContract ==
    /\ [](LastOpGroupsWithPassthrough =>
            LET T == LastOpTransformer IN
            IF heap[T].input_type <= heap[T].product_type
            THEN /\ ~lastOp.raised
                 /\ lastOp.result \in DOMAIN heap
                 /\ heap[lastOp.result].cls = "SimpleConcurrentTransformer"
                 /\ heap[lastOp.result].members = <<lastOp.a, lastOp.b>>
            ELSE /\ lastOp.raised
                 /\ lastOp.result = 0)
    /\ [](\A g \in DOMAIN heap : \A i, j \in DOMAIN heap[g].members :
            (IsGroup(heap, g) /\ IsPassthrough(heap, heap[g].members[i]) /\ i # j)
                => LET m == heap[g].members[j]
                   IN  IsPassthrough(heap, m) \/ heap[m].input_type <= heap[m].product_type)
    /\ [][lastOp'.raised /\ lastOp' # lastOp => heap' = heap]_vars

\* Passthrough & T has just raised for a T whose input type is above its product type.
C6_Witness ==
    /\ lastOp.op = "&"
    /\ lastOp.raised
    /\ IsPassthrough(heap, lastOp.a)
    /\ heap[lastOp.b].input_type > heap[lastOp.b].product_type

(***************************************************************************)
(* Execution: produce, aproduce and process as the generators they are.    *)
(* A stage is a leaf serial producer with the items its produce() yields,  *)
(* a leaf serial transformer with the name of its transform, or the        *)
(* Passthrough marker.                                                     *)
(***************************************************************************)
Items == {1, 2}

ItemSeqs == UNION {[1..k -> Items] : k \in 0..MaxLen}

Transformers == {"twice", "only_even", "with_successor"}

\* transform() of the leaf transformers: the list of what the call yields.
Transform(t, x) ==
    CASE t = "twice" -> <<x, x>>
      [] t = "only_even" -> IF x % 2 = 0 THEN <<x>> ELSE <<>>
      [] t = "with_successor" -> <<x, x + 1>>

ProducerStage(items) == [items |-> items, transformer |-> "none"]

TransformerStage(t) == [items |-> <<>>, transformer |-> t]

PassthroughStage == [items |-> <<>>, transformer |-> "Passthrough"]

ProducerStages == {ProducerStage(items) : items \in ItemSeqs}

BranchStages == {TransformerStage(t) : t \in Transformers} \cup {PassthroughStage}

Groups(S) == UNION {[1..k -> S] : k \in 1..MaxMembers}

\* SimpleProducer(input): the items still to come from input, as a collection.
SimpleProducerProducts(inp, pos) == SubSeq(inp, pos + 1, Len(inp))

\* Every iteration goes on where the last one stopped, as over a one-shot iterator.
StartCursor_OneShot(prev) == prev

\* SimpleProducer.produce(): a new iterator over the collection starts at its beginning.
StartCursor(prev) == 0

\* ConcurrentProducer.iter_concurrent_producers() of a group of serial producers: each
\* member yields itself.
ProducerConcurrentProducers(group) == group

\* ConcurrentTransformer.iter_concurrent_producers(source): source >> member for a
\* transformer, the source itself for a Passthrough.
TransformerConcurrentProducers(group, source_products) ==
    [i \in DOMAIN group |->
        [items |-> source_products,
         transformer |-> IF group[i].transformer = "Passthrough" THEN "none"
                         ELSE group[i].transformer]]

\* The loop goes on to the next producer after the current one's first item.
MemberDone_AfterFirstItem(prod, c, pend) ==
    /\ c >= 1 \/ c = Len(prod.items)
    /\ pend = <<>>

\* yield from producer is over: the producer's sequence has ended.
MemberDone(prod, c, pend) ==
    /\ c = Len(prod.items)
    /\ pend = <<>>

\* Only the first item of each transform() call is yielded.
PendingAfterYield_DropRest(pend) == <<>>

\* yield from self.transform(product): what is left to yield after one item.
PendingAfterYield(pend) == Tail(pend)

\* The sequence ends one item early.
AproduceExhausted_OneEarly(items, pos) == pos + 1 >= Len(items)

\* SerialProducer.aproduce: the for loop over self.produce() is over.
AproduceExhausted(items, pos) == pos >= Len(items)

\* SerialProducer.aproduce: the product yielded at the loop's next turn.
AproduceNext(items, pos) == items[pos + 1]

\* Every member sequence handed over is the first producer's.
NextInner_AlwaysFirst(k) == 1

\* ConcurrentProducer.aproduce: the producer whose aproduce() the generator expression
\* yields at its turn k + 1.
NextInner(k) == k + 1

SyncGroupJobs == {"produce", "cprocess"}

\* group.produce() on a group of serial producers.
ProduceCall ==
    /\ job = "produce"
    /\ epc = "init"
    /\ prods' = ProducerConcurrentProducers(stages)
    /\ epc' = "run"
    /\ UNCHANGED <<job, stages, input, itpos, products, bi, cur, pending, eout, started, apos,
                   delivered>>
    /\ UNCHANGED <<heap, lastOp, graphVars>>

\* group.process(input) on a group of transformers: iter(SimpleProducer(input) >> self).
ConcurrentProcessCall ==
    /\ job = "cprocess"
    /\ epc = "init"
    /\ products' = SimpleProducerProducts(input, itpos)
    /\ itpos' = Len(input)
    /\ prods' = TransformerConcurrentProducers(stages, products')
    /\ epc' = "run"
    /\ UNCHANGED <<job, stages, input, bi, cur, pending, eout, started, apos, delivered>>
    /\ UNCHANGED <<heap, lastOp, graphVars>>

\* transformer.process(input) on a serial transformer.
ProcessCall ==
    /\ job = "process"
    /\ epc = "init"
    /\ prods' = <<[items |-> input, transformer |-> stages[1].transformer]>>
    /\ bi' = 1
    /\ cur' = 0
    /\ epc' = "run"
    /\ UNCHANGED <<job, stages, input, itpos, products, pending, eout, started, apos,
                   delivered>>
    /\ UNCHANGED <<heap, lastOp, graphVars>>

\* ConcurrentProducer.produce: the for loop takes the next producer and starts to
\* iterate over it.
NextProducer ==
    /\ job \in SyncGroupJobs
    /\ epc = "run"
    /\ bi < Len(prods)
    /\ IF bi = 0 THEN TRUE ELSE MemberDone(prods[bi], cur, pending)
    /\ bi' = bi + 1
    /\ cur' = StartCursor(cur)
    /\ pending' = <<>>
    /\ UNCHANGED <<job, stages, input, itpos, products, prods, eout, started, apos,
                   delivered, epc>>
    /\ UNCHANGED <<heap, lastOp, graphVars>>

\* The current producer takes its next upstream item: SerialTransformer.process calls
\* transform on it; a producer without a transformer is about to yield it.
Pull ==
    /\ job \in SyncGroupJobs \cup {"process"}
    /\ epc = "run"
    /\ bi >= 1
    /\ pending = <<>>
    /\ cur < Len(prods[bi].items)
    /\ cur' = cur + 1
    /\ pending' = IF prods[bi].transformer = "none"
                  THEN <<prods[bi].items[cur + 1]>>
                  ELSE Transform(prods[bi].transformer, prods[bi].items[cur + 1])
    /\ UNCHANGED <<job, stages, input, itpos, products, prods, bi, eout, started, apos,
                   delivered, epc>>
    /\ UNCHANGED <<heap, lastOp, graphVars>>

\* One item is yielded to the caller.
Yield ==
    /\ job \in SyncGroupJobs \cup {"process"}
    /\ epc = "run"
    /\ pending # <<>>
    /\ eout' = Append(eout, Head(pending))
    /\ pending' = PendingAfterYield(pending)
    /\ UNCHANGED <<job, stages, input, itpos, products, prods, bi, cur, started, apos,
                   delivered, epc>>
    /\ UNCHANGED <<heap, lastOp, graphVars>>

\* The generator returns: the last producer's sequence has ended.
Finish ==
    /\ job \in SyncGroupJobs \cup {"process"}
    /\ epc = "run"
    /\ bi = Len(prods)
    /\ MemberDone(prods[bi], cur, pending)
    /\ epc' = "done"
    /\ UNCHANGED <<job, stages, input, itpos, products, prods, bi, cur, pending, eout,
                   started, apos, delivered>>
    /\ UNCHANGED <<heap, lastOp, graphVars>>

\* producer.aproduce() on a serial producer that does not override it.
SerialAproduceCall ==
    /\ job = "saproduce"
    /\ epc = "init"
    /\ prods' = stages
    /\ bi' = 1
    /\ cur' = 0
    /\ epc' = "run"
    /\ UNCHANGED <<job, stages, input, itpos, products, pending, eout, started, apos,
                   delivered>>
    /\ UNCHANGED <<heap, lastOp, graphVars>>

\* SerialProducer.aproduce: one turn of the loop, yielding produce()'s next product.
SerialAproduceStep ==
    /\ job = "saproduce"
    /\ epc = "run"
    /\ ~AproduceExhausted(prods[1].items, cur)
    /\ eout' = Append(eout, AproduceNext(prods[1].items, cur))
    /\ cur' = cur + 1
    /\ UNCHANGED <<job, stages, input, itpos, products, prods, bi, pending, started, apos,
                   delivered, epc>>
    /\ UNCHANGED <<heap, lastOp, graphVars>>

\* SerialProducer.aproduce: produce() has ended, and so does the async sequence.
SerialAproduceEnd ==
    /\ job = "saproduce"
    /\ epc = "run"
    /\ AproduceExhausted(prods[1].items, cur)
    /\ epc' = "done"
    /\ UNCHANGED <<job, stages, input, itpos, products, prods, bi, cur, pending, eout,
                   started, apos, delivered>>
    /\ UNCHANGED <<heap, lastOp, graphVars>>

\* group.aproduce() on a group of serial producers: async_flatten is given the
\* asynchronous generator of the members' sequences.
AproduceCall ==
    /\ job = "aproduce"
    /\ epc = "init"
    /\ prods' = ProducerConcurrentProducers(stages)
    /\ epc' = "run"
    /\ UNCHANGED <<job, stages, input, itpos, products, bi, cur, pending, eout, started, apos,
                   delivered>>
    /\ UNCHANGED <<heap, lastOp, graphVars>>

\* async_flatten takes the next member sequence, producer.aproduce(), from the
\* generator expression.
StartMember ==
    /\ job = "aproduce"
    /\ epc = "run"
    /\ Len(started) < Len(prods)
    /\ started' = Append(started, NextInner(Len(started)))
    /\ apos' = Append(apos, 0)
    /\ UNCHANGED <<job, stages, input, itpos, products, prods, bi, cur, pending, eout,
                   delivered, epc>>
    /\ UNCHANGED <<heap, lastOp, graphVars>>

\* async_flatten delivers the next item of whichever sequence it holds is ready.
Deliver ==
    /\ job = "aproduce"
    /\ epc = "run"
    /\ \E k \in DOMAIN started :
         LET items == prods[started[k]].items IN
         /\ ~AproduceExhausted(items, apos[k])
         /\ delivered' = delivered (+) SetToBag({AproduceNext(items, apos[k])})
         /\ apos' = [apos EXCEPT ![k] = @ + 1]
    /\ UNCHANGED <<job, stages, input, itpos, products, prods, bi, cur, pending, eout,
                   started, epc>>
    /\ UNCHANGED <<heap, lastOp, graphVars>>

\* Every member sequence has been taken and has ended: the merged sequence ends.
AsyncFinish ==
    /\ job = "aproduce"
    /\ epc = "run"
    /\ Len(started) = Len(prods)
    /\ \A k \in DOMAIN started : AproduceExhausted(prods[started[k]].items, apos[k])
    /\ epc' = "done"
    /\ UNCHANGED <<job, stages, input, itpos, products, prods, bi, cur, pending, eout,
                   started, apos, delivered>>
    /\ UNCHANGED <<heap, lastOp, graphVars>>

\* SerialTransformer.atransform: by default the outputs of transform(source_product),
\* one yield each, in transform's order.
atransform(t, source_product) == Transform(t, source_product)

\* transformer.aprocess(input) on a serial transformer: async_flatten is given the
\* asynchronous generator of one atransform stream per upstream product.
AprocessCall ==
    /\ job = "aprocess"
    /\ epc = "init"
    /\ prods' = <<[items |-> input, transformer |-> stages[1].transformer]>>
    /\ epc' = "run"
    /\ UNCHANGED <<job, stages, input, itpos, products, bi, cur, pending, eout, started, apos,
                   delivered>>
    /\ UNCHANGED <<heap, lastOp, graphVars>>

\* async_flatten takes the next stream from the generator expression, which takes the
\* next upstream product and calls atransform on it.
StartTransform ==
    /\ job = "aprocess"
    /\ epc = "run"
    /\ Len(started) < Len(prods[1].items)
    /\ started' = Append(started, Len(started) + 1)
    /\ apos' = Append(apos, 0)
    /\ UNCHANGED <<job, stages, input, itpos, products, prods, bi, cur, pending, eout,
                   delivered, epc>>
    /\ UNCHANGED <<heap, lastOp, graphVars>>

\* async_flatten delivers the next output of whichever atransform stream it holds is
\* ready.
DeliverTransformed ==
    /\ job = "aprocess"
    /\ epc = "run"
    /\ \E k \in DOMAIN started :
         LET txs == atransform(prods[1].transformer, prods[1].items[started[k]]) IN
         /\ apos[k] < Len(txs)
         /\ eout' = Append(eout, txs[apos[k] + 1])
         /\ apos' = [apos EXCEPT ![k] = @ + 1]
    /\ UNCHANGED <<job, stages, input, itpos, products, prods, bi, cur, pending, started,
                   delivered, epc>>
    /\ UNCHANGED <<heap, lastOp, graphVars>>

\* Every upstream product has been taken and every atransform stream has ended: the
\* merged sequence ends.
AprocessFinish ==
    /\ job = "aprocess"
    /\ epc = "run"
    /\ Len(started) = Len(prods[1].items)
    /\ \A k \in DOMAIN started :
         apos[k] = Len(atransform(prods[1].transformer, prods[1].items[started[k]]))
    /\ epc' = "done"
    /\ UNCHANGED <<job, stages, input, itpos, products, prods, bi, cur, pending, eout,
                   started, apos, delivered>>
    /\ UNCHANGED <<heap, lastOp, graphVars>>

\* A call is about to be made: on a group of serial producers, on a serial producer,
\* on a serial transformer with an input, or on a group of transformers with a
\* one-shot input iterator.
InitExec ==
    /\ heap = <<>>
    /\ lastOp = NoOp
    /\ InitGraphVars
    /\ \/ job \in {"produce", "aproduce"} /\ stages \in Groups(ProducerStages) /\ input = <<>>
       \/ job = "saproduce" /\ stages \in [1..1 -> ProducerStages] /\ input = <<>>
       \/ /\ job \in {"process", "aprocess"}
          /\ stages \in [1..1 -> {TransformerStage(t) : t \in Transformers}]
          /\ input \in ItemSeqs
       \/ job = "cprocess" /\ stages \in Groups(BranchStages) /\ input \in ItemSeqs
    /\ itpos = 0
    /\ products = <<>>
    /\ prods = <<>>
    /\ bi = 0
    /\ cur = 0
    /\ pending = <<>>
    /\ eout = <<>>
    /\ started = <<>>
    /\ apos = <<>>
    /\ delivered = EmptyBag
    /\ epc = "init"

NextExec ==
    \/ ProduceCall
    \/ ConcurrentProcessCall
    \/ ProcessCall
    \/ NextProducer
    \/ Pull
    \/ Yield
    \/ Finish
    \/ SerialAproduceCall
    \/ SerialAproduceStep
    \/ SerialAproduceEnd
    \/ AproduceCall
    \/ StartMember
    \/ Deliver
    \/ AsyncFinish
    \/ AprocessCall
    \/ StartTransform
    \/ DeliverTransformed
    \/ AprocessFinish

SpecExec == InitExec /\ [][NextExec]_vars

(***************************************************************************)
(* Properties of execution                                                 *)
(***************************************************************************)
IsPrefix(a, b) ==
    /\ Len(a) <= Len(b)
    /\ a = SubSeq(b, 1, Len(a))

RECURSIVE FlatMap(_, _)
\* The outputs of transformer t for the items of seq, item after item.
FlatMap(t, seq) ==
    IF seq = <<>> THEN <<>> ELSE Transform(t, Head(seq)) \o FlatMap(t, Tail(seq))

\* What one branch of a group of transformers is to make of the input.
BranchOutput(stage, inp) ==
    IF stage.transformer = "Passthrough" THEN inp ELSE FlatMap(stage.transformer, inp)

RECURSIVE AllBranchOutputs(_, _)
AllBranchOutputs(group, inp) ==
    IF group = <<>> THEN <<>>
    ELSE BranchOutput(Head(group), inp) \o AllBranchOutputs(Tail(group), inp)

RECURSIVE AllItems(_)
\* The members' items, member after member.
AllItems(group) ==
    IF group = <<>> THEN <<>> ELSE Head(group).items \o AllItems(Tail(group))

SeqToBag(seq) == [x \in {seq[i] : i \in DOMAIN seq} |-> Count(seq, x)]

\* C3: process() of a group of transformers on a one-shot input iterator yields, branch
\* after branch, the complete output of every branch over the whole input: the input
\* is held as a collection before the first branch runs, and nothing is left in the
\* iterator for a branch to miss.
C3_ConcurrentProcessReusableInput ==
    job = "cprocess" =>
        /\ epc \in {"run", "done"} => products = input /\ itpos = Len(input)
        /\ IsPrefix(eout, AllBranchOutputs(stages, input))
        /\ epc = "done" => eout = AllBranchOutputs(stages, input)

\* A group of two branches is done with a non-empty input, the second branch having
\* output of its own.
C3_Witness ==
    /\ job = "cprocess"
    /\ epc = "done"
    /\ Len(stages) = 2
    /\ input # <<>>
    /\ BranchOutput(stages[2], input) # <<>>
    /\ BranchOutput(stages[1], input) # <<>>

\* C4: produce() of a group of serial producers yields the members' sequences one after
\* the other in member order, each in its own order, nothing dropped or duplicated.
C4_ProduceConcatenates ==
    job = "produce" =>
        /\ IsPrefix(eout, AllItems(stages))
        /\ epc = "done" => eout = AllItems(stages)

\* Two members that emit [1, 2] and [2, 1] have been drained.
C4_Witness ==
    /\ job = "produce"
    /\ epc = "done"
    /\ Len(stages) = 2
    /\ stages[1].items = <<1, 2>>
    /\ stages[2].items = <<2, 1>>

\* C5: whatever the interleaving, aproduce() of a group of serial producers delivers
\* each item of each member exactly once: never more copies of an item than the members
\* emit, and at the end exactly the bag of all members' items.
C5_AproduceDeliversEachOnce ==
    job = "aproduce" =>
        /\ delivered \sqsubseteq SeqToBag(AllItems(stages))
        /\ epc = "done" => delivered = SeqToBag(AllItems(stages))

\* Two members with two items each, one item value in common, have been merged.
C5_Witness ==
    /\ job = "aproduce"
    /\ epc = "done"
    /\ Len(stages) = 2
    /\ stages[1].items = <<1, 2>>
    /\ stages[2].items = <<2, 2>>

\* C7: process(input) of a serial transformer yields the outputs of transform(x) for
\* the items x of input in input order, each call's outputs in the order transform
\* yields them, nothing dropped or added.
C7_ProcessFlattens ==
    job = "process" =>
        /\ IsPrefix(eout, FlatMap(stages[1].transformer, input))
        /\ epc = "done" => eout = FlatMap(stages[1].transformer, input)

\* x -> [x, x] over [1, 2] has been drained.
C7_Witness ==
    /\ job = "process"
    /\ epc = "done"
    /\ stages[1].transformer = "twice"
    /\ input = <<1, 2>>
    /\ Len(eout) = 4

\* C9: the default aproduce() of a serial producer yields produce()'s items in
\* produce()'s order, and ends when, and only when, produce() has ended.
C9_AproduceReplaysProduce ==
    job = "saproduce" =>
        /\ epc = "run" => eout = SubSeq(stages[1].items, 1, cur)
        /\ epc = "done" => eout = stages[1].items

\* A producer of two different items has been replayed.
C9_Witness ==
    /\ job = "saproduce"
    /\ epc = "done"
    /\ stages[1].items = <<2, 1>>

\* The atransform stream of the k-th upstream item has ended.
StreamEnded(k) ==
    apos[k] = Len(atransform(prods[1].transformer, prods[1].items[started[k]]))

\* C11: whatever the interleaving of the atransform streams, aprocess delivers every
\* output of an earlier upstream item before any output of a later one: no stream has
\* delivered anything while the stream of an earlier item has outputs left, and the
\* finished call has delivered the flattening of transform over the input, as process
\* does.
C11_AprocessFlattensInOrder ==
    (job = "aprocess" /\ epc # "init") =>
        /\ \A k, l \in DOMAIN started : (k < l /\ apos[l] > 0) => StreamEnded(k)
        /\ epc = "done" => eout = FlatMap(stages[1].transformer, input)

(***************************************************************************)
(* Serial chains: chained_conduits on chains of type-compatible stages.    *)
(***************************************************************************)
SerialChainedClasses == {"_ChainedTransformer", "_ChainedProducer"}

RECURSIVE final_conduit(_, _)
\* SerialConduit.final_conduit: a chained composite's is its processor's own, a leaf is
\* its own final conduit.
final_conduit(h, n) ==
    IF is_chained(h, n) THEN final_conduit(h, h[n].processor) ELSE n

RECURSIVE chained_conduits(_, _)
\* The list a full drain of n.chained_conduits gives: _SerialChainedConduit yields the
\* source's chained conduits and then its own final conduit; a leaf yields itself.
chained_conduits(h, n) ==
    IF h[n].cls \in SerialChainedClasses
    THEN chained_conduits(h, h[n].source) \o <<final_conduit(h, n)>>
    ELSE <<n>>

\* list(c.chained_conduits) on a serial chained composite c.
CallChained ==
    /\ Idle
    /\ \E n \in Conduits(heap) :
         /\ heap[n].cls \in SerialChainedClasses
         /\ root' = n
         /\ out' = chained_conduits(heap, n)
    /\ pc' = "done"
    /\ query' = "chained"
    /\ pass' = 1
    /\ UNCHANGED <<heap, lastOp, ingoing, stack, visits, steps, firstOut>>
    /\ UNCHANGED execVars

\* A serial producer and three serial transformers whose types follow on one another
\* have been constructed.
InitChain ==
    /\ heap = <<Leaf("SerialProducer", 0, 1), Leaf("SerialTransformer", 1, 2),
                Leaf("SerialTransformer", 2, 3), Leaf("SerialTransformer", 3, 4)>>
    /\ lastOp = NoOp
    /\ InitGraphVars
    /\ NoExecution

\* source >> processor on two conduits of compatible types: what the source produces
\* is what the processor takes.
RshiftCompatible ==
    /\ \E a, b \in DOMAIN heap :
         /\ issubclass_generic(heap[a].product_type, heap[b].input_type)
         /\ Compose(">>", a, b, MaxComposites)
    /\ UNCHANGED <<graphVars, execVars>>

NextChain ==
    \/ RshiftCompatible
    \/ CallChained
    \/ Release

SpecChain == InitChain /\ [][NextChain]_vars

RECURSIVE LeafStages(_, _)
\* The leaf stages of a serial chain, every occurrence, from upstream to downstream.
LeafStages(h, n) ==
    IF is_chained(h, n) THEN LeafStages(h, h[n].source) \o LeafStages(h, h[n].processor)
    ELSE <<n>>

ChainedDone == pc = "done" /\ query = "chained"

\* C12: on a serial chain built with >>, left-nested or right-nested, chained_conduits
\* yields the source's chained conduits followed by the chain's final conduit, and that
\* list is the chain's leaf stages, each occurrence once, from upstream to downstream.
C12_ChainedConduitsListsStages ==
    ChainedDone =>
        /\ out = chained_conduits(heap, heap[root].source) \o <<final_conduit(heap, root)>>
        /\ out = LeafStages(heap, root)

(***************************************************************************)
(* Properties of grouping                                                  *)
(***************************************************************************)
\* The last operation was a & b and it returned a group.
LastOpGrouped == lastOp.op = "&" /\ ~lastOp.raised

\* C13: a & b builds a group whose members are a and b, in this order, whether the
\* group is built by a.__and__(b) or by b.__rand__(a): a Passthrough on either side
\* stays on its side, and an operand given twice is a member twice.
C13_GroupMembersAreOperandsInOrder ==
    LastOpGrouped =>
        /\ IsGroup(heap, lastOp.result)
        /\ heap[lastOp.result].members = <<lastOp.a, lastOp.b>>
        /\ IsPassthrough(heap, lastOp.a) => IsPassthrough(heap, heap[lastOp.result].members[1])
        /\ IsPassthrough(heap, lastOp.b) => IsPassthrough(heap, heap[lastOp.result].members[2])
        /\ lastOp.a = lastOp.b => Count(heap[lastOp.result].members, lastOp.a) = 2

\* Passthrough & T has returned a group for a serial transformer T.
C13_Witness ==
    /\ LastOpGrouped
    /\ IsPassthrough(heap, lastOp.a)
    /\ IsSerialTransformer(heap, lastOp.b)
    /\ Len(heap[lastOp.result].members) = 2

====
